---- MODULE Spec2Model ----
(***************************************************************************)
(* A model of mfilter.types: the irregular time-grid generator, the        *)
(* frequency grid, the Lomb-Scargle / Lomb-Welch estimators, the Time      *)
(* Series container, FrequencySeries.match and the NFFT refinement loop.   *)
(*                                                                         *)
(* Numbers.  Timestamps, jitter and offsets are integers (ticks); the      *)
(* nominal spacing dt is an even number of ticks so that the rescale       *)
(* factors 0.5, 1, 1.5, 2 of the generator stay exact.  Frequencies of the *)
(* sizing algorithm are exact rationals <<num, den>>.                      *)
(***************************************************************************)
EXTENDS Integers, Sequences, FiniteSets, TLC

VARIABLES
    \* ---- IrregularTimeSamples: n, dt, the working grid t, the recipe, the
    \* keyword arguments of the last compute as passed and as resolved by
    \* _set_kwargs, and where the object is
    it_n, it_dt, it_t, it_struct, it_args, it_kw, it_pc,
    \* ---- TimeSeries.ts_nfft: tolerance, requested frequency count, the local
    \* count, the number of loop_one_step calls made, the last residual
    nf_tol, nf_Nf, nf_count, nf_steps, nf_r, nf_pc,
    \* ---- FrequencySeries.match / TimeSeries.match: the call and its outcome
    m_call, m_args, m_pc,
    \* ---- Time Grid and Time Series objects: the TimesSamples objects made so
    \* far (each its array), the TimeSeries objects (each its samples and the
    \* index of the TimesSamples object it holds), and the last call
    ts_grids, ts_series, ts_op,
    \* ---- FrequencySamples.lomb_scargle: the grid, the kernel's power at each
    \* frequency, the data array (tapered in place), the psd array, the taper
    \* power W, the frequencies handed to the kernel, and the outcome
    ls_grid, ls_kernel, ls_data, ls_psd, ls_W, ls_evals, ls_pc,
    \* ---- FrequencySamples objects: the object last built (its array, _df and
    \* _n_per_peak), the arguments and locals of the constructor call that
    \* built it, how many objects deep it is copied, and the call's outcome
    fq_obj, fq_args, fq_depth, fq_op, fq_pc,
    \* ---- FrequencySamples.lomb_welch: the grid, the timestamps of the series,
    \* data_per_segment, over, the locals n and counter, the segments added to
    \* psd so far, and where the call is
    lw_grid, lw_times, lw_d, lw_over, lw_n, lw_counter, lw_segs, lw_pc

itVars == <<it_n, it_dt, it_t, it_struct, it_args, it_kw, it_pc>>
nfVars == <<nf_tol, nf_Nf, nf_count, nf_steps, nf_r, nf_pc>>
mVars == <<m_call, m_args, m_pc>>
tsVars == <<ts_grids, ts_series, ts_op>>
lsVars == <<ls_grid, ls_kernel, ls_data, ls_psd, ls_W, ls_evals, ls_pc>>
fqVars == <<fq_obj, fq_args, fq_depth, fq_op, fq_pc>>
lwVars == <<lw_grid, lw_times, lw_d, lw_over, lw_n, lw_counter, lw_segs, lw_pc>>
vars == <<itVars, nfVars, mVars, tsVars, lsVars, fqVars, lwVars>>

\* what an action of one component leaves alone
notIt == <<nfVars, mVars, tsVars, lsVars, fqVars, lwVars>>
notNf == <<itVars, mVars, tsVars, lsVars, fqVars, lwVars>>
notM == <<itVars, nfVars, tsVars, lsVars, fqVars, lwVars>>
notTs == <<itVars, nfVars, mVars, lsVars, fqVars, lwVars>>
notLs == <<itVars, nfVars, mVars, tsVars, fqVars, lwVars>>
notFq == <<itVars, nfVars, mVars, tsVars, lsVars, lwVars>>
notLw == <<itVars, nfVars, mVars, tsVars, lsVars, fqVars>>

\* python None, for an argument left out (no number of the model is this small)
None == 0 - 1000

Abs(x) == IF x < 0 THEN -x ELSE x

Range(s) == {s[i] : i \in DOMAIN s}

\* numpy .min() / .max() of a non-empty array
SeqMin(s) == CHOOSE m \in Range(s) : \A x \in Range(s) : m <= x
SeqMax(s) == CHOOSE m \in Range(s) : \A x \in Range(s) : m >= x

\* python slice s[a:b] with 0-based bounds, 0 <= a, b
PySlice(s, a, b) ==
    LET hi == IF b > Len(s) THEN Len(s) ELSE b
    IN  IF a >= hi THEN << >> ELSE [i \in 1..(hi - a) |-> s[a + i]]

RECURSIVE Insert(_, _)
Insert(x, s) ==
    IF s = << >> THEN <<x>>
    ELSE IF x <= Head(s) THEN <<x>> \o s
    ELSE <<Head(s)>> \o Insert(x, Tail(s))

\* ndarray.sort(): ascending
RECURSIVE NpSort(_)
NpSort(s) == IF s = << >> THEN << >> ELSE Insert(Head(s), NpSort(Tail(s)))

(***************************************************************************)
(*                 IrregularTimeSamples (timeseries.py)                    *)
(***************************************************************************)
MaxN == 5           \* largest sample count of a generated grid
MaxEps == 1         \* jitter of one sample, in ticks, is in -MaxEps..MaxEps
MaxOffset == 2      \* requested offsets are 0..MaxOffset
Dts == {2}          \* nominal spacings, in ticks
DefaultOffset == 0
DefaultSigmaPct == 5   \* sigma = 0.05

Structs == {"slight", "outlier", "change+spacing", "automix"}
Gammas == {1, 2, 3, 4}    \* numerators of gamma over 2: 0.5, 1, 1.5, 2

EpsVectors(n) == [1..n -> -MaxEps..MaxEps]

\* np.arange(n) * dt
Arange(n, dt) == [i \in 1..n |-> (i - 1) * dt]

\* the keyword arguments a caller may leave out: None, or a value
Offsets == {None} \cup 0..MaxOffset
Sigmas == {None, 0}
GammaArgs == {None, 1, 3}

SetDefault(v, d) == IF v = None THEN d ELSE v

\* IrregularTimeSamples._set_kwargs: every key but gamma gets a default or
\* a random draw; eps, bp, ew, sp are the draws of this call
set_kwargs(kw, n, dt, eps, geps, bp, ew, sp) ==
    LET sigma == SetDefault(kw.sigma, DefaultSigmaPct)
        drawn == IF sigma = 0 THEN [i \in 1..n |-> 0] ELSE eps
    IN  [offset |-> SetDefault(kw.offset, DefaultOffset),
         sigma |-> sigma,
         epsilon |-> IF kw.epsilon = None THEN drawn ELSE geps,
         break_point |-> SetDefault(kw.break_point, bp),
         empty_window |-> SetDefault(kw.empty_window, ew),
         start_point |-> SetDefault(kw.start_point, sp),
         end_point |-> SetDefault(kw.end_point, n),
         gamma |-> kw.gamma]

\* IrregularTimeSamples._add_irregularities
add_irregularities(t, epsilon) == [i \in DOMAIN t |-> t[i] + epsilon[i]]

\* IrregularTimeSamples._normalize
normalize(t, offset) ==
    IF SeqMin(t) < offset
    THEN [i \in DOMAIN t |-> t[i] + (offset - Abs(SeqMin(t)))]
    ELSE t

\* IrregularTimeSamples._base
base(t, kw) == normalize(add_irregularities(t, kw.epsilon), kw.offset)

\* IrregularTimeSamples._outlier
outlier(t, kw) ==
    base([i \in DOMAIN t |->
             IF i - 1 >= kw.break_point THEN t[i] + kw.empty_window ELSE t[i]],
         kw)

\* t[a:b] *= g/2 (python slice bounds a, b)
ScaleSlice(t, a, b, g) ==
    [i \in DOMAIN t |-> IF i - 1 >= a /\ i - 1 < b THEN (t[i] * g) \div 2 ELSE t[i]]

\* IrregularTimeSamples._change_spacing; gamma must be a number
change_spacing(t, kw) ==
    base(ScaleSlice(t, kw.start_point, kw.end_point, kw.gamma), kw)

\* IrregularTimeSamples._auto_mix with its own draws g, off, ew, eps
auto_mix(t, n, g, off, ew, eps) ==
    LET s0 == NpSort(t)
        s1 == ScaleSlice(s0, 2 * (n \div 5), 4 * (n \div 5), g)
        s2 == [i \in DOMAIN s1 |->
                  IF i - 1 >= 3 * (n \div 5) THEN s1[i] + ew ELSE s1[i]]
        s3 == NpSort(add_irregularities(s2, eps))
    IN  normalize(s3, off)

NoKw == [offset |-> None, sigma |-> None, epsilon |-> None,
         break_point |-> None, empty_window |-> None, start_point |-> None,
         end_point |-> None, gamma |-> None]

ItIdle ==
    /\ it_n = 0 /\ it_dt = 0 /\ it_t = << >>
    /\ it_struct = "" /\ it_args = NoKw /\ it_kw = NoKw /\ it_pc = "idle"

\* IrregularTimeSamples.__init__ with grid = None
ItInit ==
    /\ it_n \in 1..MaxN
    /\ it_dt \in Dts
    /\ it_t = Arange(it_n, it_dt)
    /\ it_struct = ""
    /\ it_args = NoKw
    /\ it_kw = NoKw
    /\ it_pc = "new"

\* **kwargs as the caller passes them to compute
KwArgs(offset, sigma, gamma) ==
    [NoKw EXCEPT !.offset = offset, !.sigma = sigma, !.gamma = gamma]

\* the draws of _set_kwargs: a draw the recipe never reads is taken as 0
KwOf(offset, sigma, gamma, eps, bp, ew, sp) ==
    set_kwargs(KwArgs(offset, sigma, gamma), it_n, it_dt, eps, eps, bp, ew, sp)

\* IrregularTimeSamples.compute(struct="slight", clear=True, **kwargs)
ComputeSlight ==
    /\ it_pc = "new"
    /\ \E offset \in Offsets, sigma \in Sigmas, eps \in EpsVectors(it_n) :
        LET kw == KwOf(offset, sigma, None, eps, 0, 0, 0)
        IN  /\ it_args' = KwArgs(offset, sigma, None)
            /\ it_kw' = kw
            /\ it_t' = base(Arange(it_n, it_dt), kw)
    /\ it_struct' = "slight"
    /\ it_pc' = "done"
    /\ UNCHANGED <<it_n, it_dt, notIt>>

\* IrregularTimeSamples.compute(struct="outlier", clear=True, **kwargs)
ComputeOutlier ==
    /\ it_pc = "new"
    /\ \E offset \in Offsets, eps \in EpsVectors(it_n),
          bp \in 0..(it_n - 1), ew \in 0..(it_n * it_dt - 1) :
        LET kw == KwOf(offset, None, None, eps, bp, ew, 0)
        IN  /\ it_args' = KwArgs(offset, None, None)
            /\ it_kw' = kw
            /\ it_t' = outlier(Arange(it_n, it_dt), kw)
    /\ it_struct' = "outlier"
    /\ it_pc' = "done"
    /\ UNCHANGED <<it_n, it_dt, notIt>>

\* IrregularTimeSamples.compute(struct="change+spacing", clear=True, **kwargs):
\* without a gamma argument, t[a:b] *= None raises TypeError
ComputeChangeSpacing ==
    /\ it_pc = "new"
    /\ \E offset \in Offsets, gamma \in GammaArgs, eps \in EpsVectors(it_n),
          sp \in 0..(it_n - 1) :
        LET kw == KwOf(offset, None, gamma, eps, 0, 0, sp)
        IN  /\ it_args' = KwArgs(offset, None, gamma)
            /\ it_kw' = kw
            /\ IF kw.gamma = None
               THEN it_t' = Arange(it_n, it_dt) /\ it_pc' = "TypeError"
               ELSE it_t' = change_spacing(Arange(it_n, it_dt), kw)
                    /\ it_pc' = "done"
    /\ it_struct' = "change+spacing"
    /\ UNCHANGED <<it_n, it_dt, notIt>>

\* IrregularTimeSamples.compute(struct="automix", clear=True, **kwargs)
ComputeAutoMix ==
    /\ it_pc = "new"
    /\ \E g \in Gammas, off \in 0..(it_n * it_dt - 1),
          ew \in 0..((it_n * it_dt) \div 2 - 1), eps \in EpsVectors(it_n) :
        /\ it_args' = NoKw
        /\ it_kw' = KwOf(None, None, None, [i \in 1..it_n |-> 0], 0, 0, 0)
        /\ it_t' = auto_mix(Arange(it_n, it_dt), it_n, g, off, ew, eps)
    /\ it_struct' = "automix"
    /\ it_pc' = "done"
    /\ UNCHANGED <<it_n, it_dt, notIt>>

(***************************************************************************)
(*   FrequencySeries.match, TimeSeries.match, TimeSeries.to_frequencyseries *)
(***************************************************************************)
MaxDur == 5         \* durations are 0..MaxDur (self.duration = 1/basic_df >= 1)
MaxLen == 2         \* series lengths are 1..MaxLen

\* tolerances as <<numerator, denominator>>; the default is 0.1
DefaultTol == <<1, 10>>
Tols == {<<0, 1>>, DefaultTol, <<1, 4>>, <<1, 2>>}
Methods == {"regression", "nfft", "fft"}

\* abs(other.duration / self.duration - 1) > tol, in exact arithmetic
ExceedsTol(od, sd, tol) == Abs(od - sd) * tol[2] > tol[1] * sd

\* TimeSeries.regression: no regressor is an error; otherwise the series is
\* built on frequencies (the argument, or the regressor's grid of length rlen)
regression(reg, flen, rlen) ==
    IF reg = None THEN [status |-> "ValueError", len |-> 0]
    ELSE [status |-> "ok", len |-> IF flen = None THEN rlen ELSE flen]

\* np.fft.fftfreq(Nf) * Nf: 0, 1, ..., (Nf-1)//2, -(Nf//2), ..., -1
FftFreq(Nf) ==
    [i \in 1..Nf |-> IF i - 1 <= (Nf - 1) \div 2 THEN i - 1 ELSE i - 1 - Nf]

\* what ts_nfft returns for a series of length n with Nf = None
ts_nfft(n) ==
    IF Len(FftFreq(n)) < 2 THEN [status |-> "IndexError", len |-> 0]
    ELSE [status |-> "ok", len |-> n]

\* TimeSeries.to_frequencyseries(frequency_grid, method, reg=...) of a series
\* of n samples: complex data, then the dispatch on method
to_frequencyseries(n, complex, method, reg, flen, rlen) ==
    IF complex THEN [status |-> "TypeError", len |-> 0]
    ELSE IF method = "regression" THEN regression(reg, flen, rlen)
    ELSE IF method = "nfft" THEN ts_nfft(n)
    ELSE [status |-> "ValueError", len |-> 0]

\* the rest of FrequencySeries.match once other is a FrequencySeries of
\* olen samples: the two asserts, then mfilter.filter.match
match_tail(slen, olen, plen) ==
    IF olen # slen THEN "AssertionError"
    ELSE IF plen # None /\ plen # slen THEN "AssertionError"
    ELSE "delegated"

\* FrequencySeries.match(other, psd, tol), self of slen samples and duration
\* sd; a is the other operand
fs_match(slen, sd, a, plen, tol) ==
    IF a.kind = "TimeSeries"
    THEN IF ExceedsTol(a.duration, sd, tol) THEN "ValueError:tolerance"
         ELSE LET conv == to_frequencyseries(a.len, a.complex, "regression",
                                             None, None, None)
              IN  IF conv.status # "ok" THEN conv.status
                  ELSE match_tail(slen, conv.len, plen)
    ELSE match_tail(slen, a.len, plen)

Operands ==
    [kind : {"TimeSeries", "FrequencySeries"}, len : 1..MaxLen,
     duration : 0..MaxDur, complex : BOOLEAN]

MIdle == m_call = "" /\ m_args = << >> /\ m_pc = "idle"

MInit == m_call = "" /\ m_args = << >> /\ m_pc = "new"

\* a call of FrequencySeries.match
FsMatch ==
    /\ m_pc = "new"
    /\ \E slen \in 1..MaxLen, sd \in 1..MaxDur, a \in Operands,
          plen \in {None} \cup 1..MaxLen, tol \in Tols :
        /\ m_args' = [slen |-> slen, sd |-> sd, other |-> a, plen |-> plen,
                      tol |-> tol]
        /\ m_pc' = fs_match(slen, sd, a, plen, tol)
    /\ m_call' = "FrequencySeries.match"
    /\ UNCHANGED notM

\* a call of TimeSeries.match(other, psd, frequency_grid, method, tol, reg=...):
\* self is converted with the caller's arguments, then matched
TsMatch ==
    /\ m_pc = "new"
    /\ \E n \in 1..MaxLen, complex \in BOOLEAN, method \in Methods,
          reg \in {None, 1}, flen \in {None} \cup 1..MaxLen, rlen \in 1..MaxLen,
          sd \in 1..MaxDur, plen \in {None} \cup 1..MaxLen,
          a \in Operands, tol \in Tols :
        LET conv == to_frequencyseries(n, complex, method, reg, flen, rlen)
        IN  /\ m_args' = [slen |-> n, complex |-> complex, method |-> method,
                          reg |-> reg, flen |-> flen, rlen |-> rlen,
                          sd |-> sd, plen |-> plen, other |-> a, tol |-> tol]
            /\ m_pc' = IF conv.status # "ok" THEN conv.status
                       ELSE fs_match(conv.len, sd, a, plen, tol)
    /\ m_call' = "TimeSeries.match"
    /\ UNCHANGED notM

(***************************************************************************)
(*                  TimeSeries.ts_nfft (timeseries.py)                     *)
(***************************************************************************)
MaxCount == 500     \* the value of count at which the loop gives up
MaxResid == 2       \* residuals max(solv.r_iter) are 0..MaxResid
MaxNf == 3          \* requested frequency counts are 1..MaxNf

NfIdle ==
    /\ nf_tol = 0 /\ nf_Nf = 0 /\ nf_count = 0 /\ nf_steps = 0 /\ nf_r = 0
    /\ nf_pc = "idle"

\* ts_nfft up to solv.before_loop() and count = 0
NfInit ==
    /\ nf_tol \in 1..MaxResid
    /\ nf_Nf \in 1..MaxNf
    /\ nf_count = 0
    /\ nf_steps = 0
    /\ nf_r = 0
    /\ nf_pc = "loop"

\* what one pass of the while True body does after loop_one_step returned
\* residual r at count c: stop on convergence, stop at the cap, or go on
LoopExit(r, tol, c) ==
    IF r < tol THEN "converged"
    ELSE IF c = MaxCount THEN "capped"
    ELSE "loop"

\* one pass of the while True loop: solv.loop_one_step(), then the two tests
NfftStep ==
    /\ nf_pc = "loop"
    /\ \E r \in 0..MaxResid :
        /\ nf_r' = r
        /\ nf_steps' = nf_steps + 1
        /\ nf_pc' = LoopExit(r, nf_tol, nf_count)
        /\ nf_count' = IF LoopExit(r, nf_tol, nf_count) = "loop"
                       THEN nf_count + 1 ELSE nf_count
    /\ UNCHANGED <<nf_tol, nf_Nf, notNf>>

\* after the loop: the frequency grid (df = freqs[1] - freqs[0] needs two
\* entries) and the FrequencySeries around solv.f_hat_iter
NfftReturn ==
    /\ nf_pc \in {"converged", "capped"}
    /\ nf_pc' = IF Len(FftFreq(nf_Nf)) < 2 THEN "IndexError" ELSE "done"
    /\ UNCHANGED <<nf_tol, nf_Nf, nf_count, nf_steps, nf_r, notNf>>
(***************************************************************************)
(*             TimesSamples and TimeSeries objects (timeseries.py)         *)
(***************************************************************************)
MaxObjs == 2        \* at most MaxObjs TimesSamples and MaxObjs TimeSeries objects
MaxTsLen == 2       \* arrays handed to a constructor hold 0..MaxTsLen entries
MaxTime == 2        \* timestamps handed to a constructor are 0..MaxTime
GrowLen == 3        \* add_data is no longer called on an array this long
Sample == "x"       \* the value of every sample (no operation here reads it)

Arrays(vals, least) == UNION {[1..k -> vals] : k \in least..MaxTsLen}

\* np.abs(times - x).argmin(): the first index (0-based) nearest to x
ArgMinAbs(times, x) ==
    CHOOSE i \in 0..(Len(times) - 1) :
        /\ \A j \in 0..(Len(times) - 1) : Abs(times[i + 1] - x) <= Abs(times[j + 1] - x)
        /\ \A j \in 0..(i - 1) : Abs(times[j + 1] - x) > Abs(times[i + 1] - x)

\* TimeSeries.__init__(initial_array, times=<TimesSamples object g>): the only
\* tests are len(initial_array) >= 1 and the type of times
TimeSeries_init(data, g) ==
    IF Len(data) < 1 THEN [status |-> "ValueError"]
    ELSE [status |-> "ok", series |-> [data |-> data, times |-> g]]

\* the indices get_time_slice hands to _getslice
SliceIdx(times, start_time, end_time) ==
    <<ArgMinAbs(times, start_time), ArgMinAbs(times, end_time)>>

TsIdle == ts_grids = << >> /\ ts_series = << >> /\ ts_op = [name |-> "idle", status |-> ""]

SeriesInit == ts_grids = << >> /\ ts_series = << >> /\ ts_op = [name |-> "new", status |-> ""]

\* TimesSamples(initial_array=arr)
NewTimes ==
    /\ Len(ts_grids) < MaxObjs
    /\ \E arr \in Arrays(0..MaxTime, 1) : ts_grids' = Append(ts_grids, arr)
    /\ ts_op' = [name |-> "TimesSamples", status |-> "ok"]
    /\ UNCHANGED <<ts_series, notTs>>

\* TimeSeries(initial_array, times=g) with an existing TimesSamples object
NewSeries ==
    /\ Len(ts_series) < MaxObjs
    /\ \E data \in Arrays({Sample}, 0), g \in DOMAIN ts_grids :
        LET r == TimeSeries_init(data, g)
        IN  /\ ts_series' = IF r.status = "ok" THEN Append(ts_series, r.series)
                            ELSE ts_series
            /\ ts_op' = [name |-> "TimeSeries", status |-> r.status]
    /\ UNCHANGED <<ts_grids, notTs>>

\* TimeSeries(initial_array, delta_t=dt, regular=True): times is None, so the
\* constructor makes the grid arange(n) * delta itself
NewSeriesRegular ==
    /\ Len(ts_series) < MaxObjs
    /\ Len(ts_grids) < MaxObjs
    /\ \E data \in Arrays({Sample}, 0), dt \in 0..1 :
        IF Len(data) < 1 \/ dt <= 0
        THEN /\ ts_op' = [name |-> "TimeSeries", status |-> "ValueError"]
             /\ UNCHANGED <<ts_grids, ts_series>>
        ELSE /\ ts_grids' = Append(ts_grids, Arange(Len(data), dt))
             /\ ts_series' = Append(ts_series,
                    TimeSeries_init(data, Len(ts_grids) + 1).series)
             /\ ts_op' = [name |-> "TimeSeries", status |-> "ok"]
    /\ UNCHANGED notTs

\* TimeSeries.get_time_slice(start_time, end_time) -> _getslice -> _return:
\* the same index slice of the samples and of the grid, the grid slice
\* wrapped in a new TimesSamples object
GetTimeSlice ==
    /\ Len(ts_series) < MaxObjs
    /\ Len(ts_grids) < MaxObjs
    /\ \E s \in DOMAIN ts_series, start_time \in 0..MaxTime, end_time \in 0..MaxTime :
        LET self == ts_series[s]
            times == ts_grids[self.times]
        IN  IF times = << >>
            THEN /\ ts_op' = [name |-> "get_time_slice", status |-> "ValueError"]
                 /\ UNCHANGED <<ts_grids, ts_series>>
            ELSE LET idx == SliceIdx(times, start_time, end_time)
                     r == TimeSeries_init(PySlice(self.data, idx[1], idx[2]),
                                          Len(ts_grids) + 1)
                 IN  /\ ts_grids' = Append(ts_grids, PySlice(times, idx[1], idx[2]))
                     /\ ts_series' = IF r.status = "ok"
                                     THEN Append(ts_series, r.series) ELSE ts_series
                     /\ ts_op' = [name |-> "get_time_slice", status |-> r.status]
    /\ UNCHANGED notTs

\* TimeSeries._return(self._data): a new series on the SAME TimesSamples object
Return ==
    /\ Len(ts_series) < MaxObjs
    /\ \E s \in DOMAIN ts_series :
        LET r == TimeSeries_init(ts_series[s].data, ts_series[s].times)
        IN  /\ ts_series' = Append(ts_series, r.series)
            /\ ts_op' = [name |-> "_return", status |-> r.status]
    /\ UNCHANGED <<ts_grids, notTs>>

\* TimesSamples.add_point(point_time), which timeseries.py calls and does not
\* define: either the call fails (no such method), or it appends the point to
\* the object's array in place
add_point(times, point_time, exists) ==
    IF exists THEN [status |-> "ok", times |-> Append(times, point_time)]
    ELSE [status |-> "AttributeError", times |-> times]

\* TimeSeries.add_data(point_data, point_time): the samples are replaced by
\* the longer array first, then the grid object is told to add the point
AddData ==
    /\ \E s \in DOMAIN ts_series, point_time \in 0..MaxTime, exists \in BOOLEAN :
        LET self == ts_series[s]
            r == add_point(ts_grids[self.times], point_time, exists)
        IN  /\ Len(self.data) < GrowLen
            /\ Len(ts_grids[self.times]) < GrowLen
            /\ ts_series' = [ts_series EXCEPT ![s].data = Append(self.data, Sample)]
            /\ ts_grids' = [ts_grids EXCEPT ![self.times] = r.times]
            /\ ts_op' = [name |-> "add_data", status |-> r.status]
    /\ UNCHANGED notTs

\* len(samples) == len(time grid) for series s, and for every series
Consistent(s) == Len(ts_series[s].data) = Len(ts_grids[ts_series[s].times])
AllConsistent == \A s \in DOMAIN ts_series : Consistent(s)

(***************************************************************************)
(*            FrequencySamples.lomb_scargle (frequencyseries.py)           *)
(***************************************************************************)
MaxFreq == 2        \* grid frequencies are -MaxFreq..MaxFreq
MaxGridLen == 4     \* a grid holds 1..MaxGridLen frequencies
MaxPower == 1       \* the kernel's powers are 0..MaxPower
MaxData == 3        \* a data array holds 1..MaxData samples (1, 2, ..., its length)

Reverse(s) == [i \in DOMAIN s |-> s[Len(s) + 1 - i]]

\* the grids of the program: evenly or unevenly spaced ascending frequencies
\* (the sizing algorithm, explicit arrays) and the fftfreq order of ts_nfft
IsAscending(g) == \A i \in 1..(Len(g) - 1) : g[i] < g[i + 1]
Grids ==
    {g \in UNION {[1..k -> -MaxFreq..MaxFreq] : k \in 1..MaxGridLen} : IsAscending(g)}
        \cup {FftFreq(k) : k \in 1..MaxGridLen}

\* scipy.signal.windows.tukey(M, alpha=1/8) for M <= 16: the tapered width
\* floor((M - 1) / 16) is 0, so only the two end samples are tapered, to 0
tukey(M) ==
    IF M = 1 THEN <<1>> ELSE [i \in 1..M |-> IF i = 1 \/ i = M THEN 0 ELSE 1]

SumSeq(s) == LET RECURSIVE Sum(_)
                 Sum(k) == IF k = 0 THEN 0 ELSE s[k] + Sum(k - 1)
             IN  Sum(Len(s))

\* W = (window ** 2).sum() / len(window), as <<numerator, denominator>>
taper_power(window) == <<SumSeq([i \in DOMAIN window |-> window[i] * window[i]]), Len(window)>>

\* data *= window
taper(data, window) == [i \in DOMAIN data |-> data[i] * window[i]]

\* FrequencySamples.has_zero
has_zero(g) == 0 \in Range(g)

\* FrequencySamples.zero_idx (0-based), for a grid that has a zero
zero_idx(g) == CHOOSE i \in 0..(Len(g) - 1) : g[i + 1] = 0 /\ \A j \in 1..i : g[j] # 0

\* FrequencySamples.split_by_zero, for a grid that has a zero at idx
split_by_zero_keep(g, idx) == <<PySlice(g, 0, idx + 1), PySlice(g, idx + 1, Len(g))>>
split_by_zero(g, idx) == <<PySlice(g, 0, idx), PySlice(g, idx + 1, Len(g))>>

\* lomb.power(freqs): the kernel's power at each frequency handed to it
power(K, freqs) == [i \in DOMAIN freqs |-> K[freqs[i]]]

\* psd[zero_idx] = min(psd[:zero_idx]): the power written at the zero bin,
\* given the powers written below it (left) and those computed above (right)
zero_bin_shorter(left, right) ==
    IF Len(right) < Len(left) /\ right # << >> THEN SeqMin(right) ELSE SeqMin(left)
zero_bin(left, right) == SeqMin(left)

\* the body of lomb_scargle after the window: which frequencies go to the
\* kernel and what is written in psd
lomb_psd(g, K) ==
    IF has_zero(g)
    THEN LET z == zero_idx(g)
         IN  IF z = 0
             THEN LET rest == PySlice(g, 1, Len(g))
                  IN  IF rest = << >>
                      THEN [status |-> "ValueError", psd |-> << >>, evals |-> {}]
                      ELSE [status |-> "ok",
                            psd |-> <<SeqMin(power(K, rest))>> \o power(K, rest),
                            evals |-> Range(rest)]
             ELSE LET neg_freq == split_by_zero(g, z)[1]
                      pos_freq == split_by_zero(g, z)[2]
                      right_psd == power(K, pos_freq)
                      absneg == [i \in DOMAIN neg_freq |-> Abs(Reverse(neg_freq)[i])]
                      left_psd == power(K, absneg)
                      left == Reverse(left_psd)
                  IN  [status |-> "ok",
                       psd |-> left \o <<zero_bin(left, right_psd)>> \o right_psd,
                       evals |-> Range(pos_freq) \cup Range(absneg)]
    ELSE LET mags == [i \in DOMAIN g |-> Abs(g[i])]
         IN  [status |-> "ok", psd |-> power(K, mags), evals |-> Range(mags)]

LsIdle ==
    /\ ls_grid = << >> /\ ls_kernel = << >> /\ ls_data = << >> /\ ls_psd = << >>
    /\ ls_W = <<0, 0>> /\ ls_evals = {} /\ ls_pc = "idle"

\* a grid, a data array and the kernel's answers, before lomb_scargle is called
LsInit ==
    /\ ls_grid \in Grids
    /\ ls_kernel \in [-MaxFreq..MaxFreq -> 0..MaxPower]
    /\ ls_data \in {[i \in 1..k |-> i] : k \in 1..MaxData}
    /\ ls_psd = << >>
    /\ ls_W = <<0, 0>>
    /\ ls_evals = {}
    /\ ls_pc = "new"

\* FrequencySamples.lomb_scargle(times, data): the returned series holds
\* psd / W, kept here as the array psd and the number W
LombScargle ==
    /\ ls_pc = "new"
    /\ LET window == tukey(Len(ls_data))
           r == lomb_psd(ls_grid, ls_kernel)
       IN  /\ ls_data' = taper(ls_data, window)
           /\ ls_W' = taper_power(window)
           /\ ls_psd' = r.psd
           /\ ls_evals' = r.evals
           /\ ls_pc' = IF r.status = "ok" THEN "done" ELSE r.status
    /\ UNCHANGED <<ls_grid, ls_kernel, notLs>>

(***************************************************************************)
(*             FrequencySamples.__init__ (frequencyseries.py)              *)
(***************************************************************************)
MaxQuarter == 6     \* frequency arguments are k/4 for k in -2..MaxQuarter
MaxSpp == 2         \* samples_per_peak arguments are 1..MaxSpp
MaxNSamples == 2    \* n_samples arguments are 1..MaxNSamples
MaxDepth == 2       \* a grid is copied from a grid at most MaxDepth deep
DefaultSpp == 5
DefaultSppArray == 1
DefaultNyquistFactor == 2
DefaultMinimumFrequency == 0

RECURSIVE Gcd(_, _)
Gcd(a, b) == IF b = 0 THEN a ELSE Gcd(b, a % b)

Sign(x) == IF x > 0 THEN 1 ELSE IF x < 0 THEN 0 - 1 ELSE 0

\* a float as the exact fraction <<numerator, denominator>> in lowest terms;
\* <<1, 0>> and <<-1, 0>> are +inf and -inf, <<0, 0>> is nan
Frac(n, d) ==
    IF d = 0 THEN <<Sign(n), 0>>
    ELSE LET g == Gcd(Abs(n), Abs(d))
         IN  <<(Sign(d) * n) \div g, Abs(d) \div g>>

Whole(k) == <<k, 1>>
IsFinite(x) == x[2] # 0
IsNan(x) == x = <<0, 0>>

FMul(x, y) == Frac(x[1] * y[1], x[2] * y[2])
\* numpy division: x / 0 is inf (or nan for 0 / 0), never an exception
FDiv(x, y) == IF y[2] = 0 THEN Frac(x[1] * y[2], x[2] * Abs(y[1]))
              ELSE Frac(x[1] * y[2], x[2] * y[1])
FAdd(x, y) ==
    IF ~IsFinite(x) /\ ~IsFinite(y) THEN (IF x = y THEN x ELSE <<0, 0>>)
    ELSE Frac(x[1] * y[2] + y[1] * x[2], x[2] * y[2])
FSub(x, y) == FAdd(x, <<0 - y[1], y[2]>>)

\* round(x) of a finite float: to the nearest integer, halves to the even one
PyRound(x) ==
    LET q == x[1] \div x[2]
        r == x[1] - q * x[2]
    IN  IF 2 * r < x[2] THEN q
        ELSE IF 2 * r > x[2] THEN q + 1
        ELSE IF q % 2 = 0 THEN q ELSE q + 1

\* n_samples = 1 + int(round(freq_duration / df)): nan and inf cannot be
\* converted to an integer
n_samples_of_floor(freq_duration, df) ==
    LET x == FDiv(freq_duration, df)
    IN  IF IsNan(x) THEN [status |-> "ValueError", n |-> 0]
        ELSE IF ~IsFinite(x) THEN [status |-> "OverflowError", n |-> 0]
        ELSE [status |-> "ok", n |-> 1 + (x[1] \div x[2])]
n_samples_of(freq_duration, df) ==
    LET x == FDiv(freq_duration, df)
    IN  IF IsNan(x) THEN [status |-> "ValueError", n |-> 0]
        ELSE IF ~IsFinite(x) THEN [status |-> "OverflowError", n |-> 0]
        ELSE [status |-> "ok", n |-> 1 + PyRound(x)]

\* minimum_frequency + df * np.arange(n_samples); arange of a count <= 0 is empty
grid_of(minimum_frequency, df, n_samples) ==
    [i \in 1..n_samples |-> FAdd(minimum_frequency, FMul(df, Whole(i - 1)))]

\* FrequencySamples(input_time=..., minimum_frequency, maximum_frequency,
\* samples_per_peak, nyquist_factor, n_samples, df): the df argument is
\* overwritten; a is the record of arguments, None for one left out
from_times(a) ==
    LET samples_per_peak == SetDefault(a.samples_per_peak, DefaultSpp)
        duration == Whole(SeqMax(a.input_time) - SeqMin(a.input_time))
        df == FDiv(FDiv(Whole(1), duration), Whole(samples_per_peak))
        minimum_frequency ==
            IF a.minimum_frequency = None THEN Whole(DefaultMinimumFrequency)
            ELSE Frac(a.minimum_frequency, 4)
        average_nyq == FDiv(Frac(Len(a.input_time), 2), duration)
        maximum_frequency ==
            IF a.maximum_frequency = None
            THEN FMul(Whole(a.nyquist_factor), average_nyq)
            ELSE Frac(a.maximum_frequency, 4)
        computed == a.maximum_frequency # None \/ a.n_samples = None
        ns == IF computed
              THEN n_samples_of(FSub(maximum_frequency, minimum_frequency), df)
              ELSE [status |-> "ok", n |-> a.n_samples]
        locals == [minimum_frequency |-> minimum_frequency,
                   maximum_frequency |-> maximum_frequency,
                   computed |-> computed, n_samples |-> ns.n]
    IN  IF ns.status # "ok"
        THEN [status |-> ns.status, locals |-> locals,
              obj |-> [data |-> << >>, df |-> df, spp |-> samples_per_peak]]
        ELSE [status |-> "ok", locals |-> locals,
              obj |-> [data |-> grid_of(minimum_frequency, df, ns.n),
                       df |-> df, spp |-> samples_per_peak]]

\* FrequencySamples.basic_df
basic_df(obj) == FMul(obj.df, Whole(obj.spp))

\* FrequencySamples(initial_array=<array>, df, samples_per_peak); the df
\* argument is << >> when left out and <<df>> when given
from_array(arr, df, samples_per_peak) ==
    IF df = << >> /\ Len(arr) < 2
    THEN [status |-> "IndexError"]
    ELSE [status |-> "ok",
          obj |-> [data |-> arr,
                   df |-> IF df = << >> THEN FSub(arr[2], arr[1]) ELSE df[1],
                   spp |-> SetDefault(samples_per_peak, DefaultSppArray)]]

\* FrequencySamples(initial_array=<FrequencySamples object>)
from_samples(other) ==
    [status |-> "ok",
     obj |-> [data |-> other.data, df |-> basic_df(other), spp |-> other.spp]]

\* FrequencySamples._return(ary) for a plain array ary
fq_return(self, ary) ==
    [status |-> "ok",
     obj |-> [data |-> ary, df |-> basic_df(self), spp |-> self.spp]]

NoGrid == [data |-> << >>, df |-> <<0, 0>>, spp |-> 0]
NoArgs == [input_time |-> << >>, minimum_frequency |-> None,
           maximum_frequency |-> None, samples_per_peak |-> None,
           nyquist_factor |-> None, n_samples |-> None, df |-> None]
NoLocals == [minimum_frequency |-> <<0, 0>>, maximum_frequency |-> <<0, 0>>,
             computed |-> FALSE, n_samples |-> 0]

FqIdle ==
    /\ fq_obj = NoGrid /\ fq_args = [args |-> NoArgs, locals |-> NoLocals]
    /\ fq_depth = 0 /\ fq_op = "" /\ fq_pc = "idle"

FqInit ==
    /\ fq_obj = NoGrid /\ fq_args = [args |-> NoArgs, locals |-> NoLocals]
    /\ fq_depth = 0 /\ fq_op = "" /\ fq_pc = "new"

\* source time grids: only their length and max - min are read
TimeGrids == {t \in Arrays(0..MaxTime, 1) : \A i \in 1..(Len(t) - 1) : t[i] < t[i + 1]}

Quarters == {None} \cup (0 - 2)..MaxQuarter

\* a call of the constructor on a source time grid
FromTimes ==
    /\ fq_pc = "new"
    /\ \E input_time \in TimeGrids,
          minimum_frequency \in {None, 0 - 2, 1, 2},
          maximum_frequency \in Quarters,
          samples_per_peak \in {None} \cup 1..MaxSpp,
          nyquist_factor \in {1, DefaultNyquistFactor},
          n_samples \in {None} \cup 1..MaxNSamples,
          df \in {None, 1} :
        LET a == [input_time |-> input_time,
                  minimum_frequency |-> minimum_frequency,
                  maximum_frequency |-> maximum_frequency,
                  samples_per_peak |-> samples_per_peak,
                  nyquist_factor |-> nyquist_factor,
                  n_samples |-> n_samples, df |-> df]
            r == from_times(a)
        IN  /\ fq_args' = [args |-> a, locals |-> r.locals]
            /\ fq_obj' = r.obj
            /\ fq_pc' = r.status
    /\ fq_op' = "from_times"
    /\ fq_depth' = 0
    /\ UNCHANGED notFq

\* a call of the constructor on an explicit array of frequencies
FromArray ==
    /\ fq_pc = "new"
    /\ \E g \in Grids, df \in {None, 1}, samples_per_peak \in {None} \cup 1..MaxSpp :
        LET r == from_array([i \in DOMAIN g |-> Whole(g[i])],
                            IF df = None THEN << >> ELSE <<Whole(df)>>, samples_per_peak)
        IN  /\ fq_obj' = IF r.status = "ok" THEN r.obj ELSE NoGrid
            /\ fq_pc' = r.status
    /\ fq_op' = "from_array"
    /\ fq_depth' = 0
    /\ UNCHANGED <<fq_args, notFq>>

\* a call of the constructor on the FrequencySamples object built last
FromSamples ==
    /\ fq_pc = "ok"
    /\ fq_depth < MaxDepth
    /\ fq_obj' = from_samples(fq_obj).obj
    /\ fq_op' = "from_samples"
    /\ fq_depth' = fq_depth + 1
    /\ UNCHANGED <<fq_args, fq_pc, notFq>>

\* a container operation on the object built last that ends in
\* self._return(<plain array>): here the slice that drops the first entry
FqReturn ==
    /\ fq_pc = "ok"
    /\ fq_depth < MaxDepth
    /\ fq_obj.data # << >>
    /\ fq_obj' = fq_return(fq_obj, Tail(fq_obj.data)).obj
    /\ fq_op' = "_return"
    /\ fq_depth' = fq_depth + 1
    /\ UNCHANGED <<fq_args, fq_pc, notFq>>

\* np.linspace(0, stop, num)
linspace(stop, num) ==
    [i \in 1..num |-> IF num = 1 THEN Whole(0)
                      ELSE FDiv(FMul(stop, Whole(i - 1)), Whole(num - 1))]

\* FrequencySeries(initial_array, delta_f=..., minimum_frequency=...,
\* samples_per_peak=..., epoch=...) with frequency_grid left out and a plain
\* array of N samples: the synthetic input_times go to FrequencySamples as its
\* first positional parameter, which is initial_array, so minimum_frequency
\* and n_samples of that call are never read
FrequencySeries_init(N, delta_f, minimum_frequency, samples_per_peak) ==
    IF N < 1 THEN [status |-> "ValueError"]
    ELSE IF delta_f[1] <= 0 THEN [status |-> "ValueError"]
    ELSE LET spp == SetDefault(samples_per_peak, DefaultSppArray)
             input_times == linspace(FDiv(Whole(1), delta_f), N)
             g == from_array(input_times, << >>, spp)
         IN  IF g.status # "ok" THEN [status |-> g.status]
             ELSE IF Len(g.obj.data) # N THEN [status |-> "AssertionError"]
             ELSE g

DeltaFs == {0, 1, 2, 4, 8}      \* delta_f arguments, in quarters

\* a call of the FrequencySeries constructor without a frequency_grid; the
\* call is kept in fq_args with delta_f under df and len(initial_array) under
\* n_samples, the object kept is the Frequency Grid the series gets
NewFrequencySeries ==
    /\ fq_pc = "new"
    /\ \E N \in 0..MaxNSamples, delta_f \in DeltaFs,
          minimum_frequency \in {None, 0, 1},
          samples_per_peak \in {None} \cup 1..MaxSpp :
        LET r == FrequencySeries_init(N, Frac(delta_f, 4), minimum_frequency,
                                      samples_per_peak)
        IN  /\ fq_args' = [args |-> [NoArgs EXCEPT
                                        !.df = delta_f,
                                        !.minimum_frequency = minimum_frequency,
                                        !.samples_per_peak = samples_per_peak,
                                        !.n_samples = N],
                           locals |-> NoLocals]
            /\ fq_obj' = IF r.status = "ok" THEN r.obj ELSE NoGrid
            /\ fq_pc' = r.status
    /\ fq_op' = "FrequencySeries"
    /\ fq_depth' = 0
    /\ UNCHANGED notFq

(***************************************************************************)
(*             FrequencySamples.lomb_welch (frequencyseries.py)            *)
(***************************************************************************)
MaxL == 5           \* a series holds 2..MaxL samples
MaxT == 4           \* its timestamps are 0..MaxT, ascending
OverDen == 2        \* over is k/OverDen for k in 1..OverDen
MaxIter == 6        \* the while loop is followed for at most MaxIter passes

\* ascending timestamps (equal neighbours allowed)
Ascending(L) == {t \in [1..L -> 0..MaxT] : \A i \in 1..(L - 1) : t[i] <= t[i + 1]}

\* the while condition: n < len(data) - data_per_segment
welch_continue_short(n, L, d) == n < L - d - 1
welch_continue(n, L, d) == n < L - d

\* int(data_per_segment * over), over = <<numerator, denominator>>
welch_step(d, over) == (d * over[1]) \div over[2]

\* one segment: data.get_time_slice(start_time, end_time), the taper, W, and
\* aux_timeseries.psd(self) / W, where psd is lomb_scargle on the segment
\* (which tapers the segment again and divides by its own W); the segment is
\* kept as the index slice [lo, hi) it covers
welch_segment(g, times, start_time, end_time) ==
    LET idx == SliceIdx(times, start_time, end_time)
        len == IF idx[2] > idx[1] THEN idx[2] - idx[1] ELSE 0
        window == tukey(len)
    IN  IF len < 1 THEN [status |-> "ValueError"]
        ELSE IF lomb_psd(g, [f \in -MaxFreq..MaxFreq |-> 0]).status # "ok"
        THEN [status |-> "ValueError"]
        ELSE [status |-> "ok",
              seg |-> [lo |-> idx[1], hi |-> idx[2], tapers |-> 2,
                       W_scargle |-> taper_power(tukey(len)),
                       W_welch |-> taper_power(window)]]

LwIdle ==
    /\ lw_grid = << >> /\ lw_times = << >> /\ lw_d = 0 /\ lw_over = <<0, 0>>
    /\ lw_n = 0 /\ lw_counter = 0 /\ lw_segs = << >> /\ lw_pc = "idle"

\* lomb_welch(times, data, data_per_segment, over) up to counter = 0, n = 0;
\* times are the timestamps of data
LwInit ==
    /\ lw_grid \in {<<0>>, <<-1, 0, 1>>}
    /\ \E L \in 2..MaxL : lw_times \in Ascending(L)
    /\ lw_d \in 1..(Len(lw_times) - 1)
    /\ lw_over \in {<<k, OverDen>> : k \in 1..OverDen}
    /\ lw_n = 0
    /\ lw_counter = 0
    /\ lw_segs = << >>
    /\ lw_pc = "loop"

\* one pass of the while loop
WelchSegment ==
    /\ lw_pc = "loop"
    /\ welch_continue(lw_n, Len(lw_times), lw_d)
    /\ lw_counter < MaxIter
    /\ LET r == welch_segment(lw_grid, lw_times, lw_times[lw_n + 1],
                              lw_times[lw_n + lw_d + 1])
       IN  IF r.status # "ok"
           THEN lw_pc' = r.status /\ UNCHANGED <<lw_n, lw_counter, lw_segs>>
           ELSE /\ lw_segs' = Append(lw_segs, r.seg)
                /\ lw_n' = lw_n + welch_step(lw_d, lw_over)
                /\ lw_counter' = lw_counter + 1
                /\ lw_pc' = "loop"
    /\ UNCHANGED <<lw_grid, lw_times, lw_d, lw_over, notLw>>

\* after the loop: the segment between times[len - d - 1] and times[len - 1],
\* counter += 1 and psd /= counter
WelchTail ==
    /\ lw_pc = "loop"
    /\ ~welch_continue(lw_n, Len(lw_times), lw_d)
    /\ LET L == Len(lw_times)
           r == welch_segment(lw_grid, lw_times, lw_times[L - lw_d], lw_times[L])
       IN  IF r.status # "ok"
           THEN lw_pc' = r.status /\ UNCHANGED <<lw_counter, lw_segs>>
           ELSE /\ lw_segs' = Append(lw_segs, r.seg)
                /\ lw_counter' = lw_counter + 1
                /\ lw_pc' = "done"
    /\ UNCHANGED <<lw_grid, lw_times, lw_d, lw_over, lw_n, notLw>>

(***************************************************************************)
(*                           Specifications                                *)
(***************************************************************************)
GenInit == ItInit /\ NfIdle /\ MIdle /\ TsIdle /\ LsIdle /\ FqIdle /\ LwIdle
GenNext ==
    \/ ComputeSlight
    \/ ComputeOutlier
    \/ ComputeChangeSpacing
    \/ ComputeAutoMix
SpecGen == GenInit /\ [][GenNext]_vars

MatchInit == MInit /\ ItIdle /\ NfIdle /\ TsIdle /\ LsIdle /\ FqIdle /\ LwIdle
MatchNext ==
    \/ FsMatch
    \/ TsMatch
SpecMatch == MatchInit /\ [][MatchNext]_vars

NfftInit == NfInit /\ ItIdle /\ MIdle /\ TsIdle /\ LsIdle /\ FqIdle /\ LwIdle
NfftNext ==
    \/ NfftStep
    \/ NfftReturn
SpecNfft == NfftInit /\ [][NfftNext]_vars

TSeriesInit == SeriesInit /\ ItIdle /\ NfIdle /\ MIdle /\ LsIdle /\ FqIdle /\ LwIdle
TSeriesNext ==
    \/ NewTimes
    \/ NewSeries
    \/ NewSeriesRegular
    \/ GetTimeSlice
    \/ Return
    \/ AddData
SpecSeries == TSeriesInit /\ [][TSeriesNext]_vars

LombInit == LsInit /\ ItIdle /\ NfIdle /\ MIdle /\ TsIdle /\ FqIdle /\ LwIdle
LombNext ==
    \/ LombScargle
SpecLomb == LombInit /\ [][LombNext]_vars

GridInit == FqInit /\ ItIdle /\ NfIdle /\ MIdle /\ TsIdle /\ LsIdle /\ LwIdle
GridNext ==
    \/ FromTimes
    \/ FromArray
    \/ FromSamples
    \/ FqReturn
    \/ NewFrequencySeries
SpecGrid == GridInit /\ [][GridNext]_vars

WelchInit == LwInit /\ ItIdle /\ NfIdle /\ MIdle /\ TsIdle /\ LsIdle /\ FqIdle
WelchNext ==
    \/ WelchSegment
    \/ WelchTail
SpecWelch == WelchInit /\ [][WelchNext]_vars

Init == WelchInit \/ GridInit \/ LombInit \/ GenInit \/ MatchInit \/ NfftInit \/ TSeriesInit
Next ==
    \/ ComputeSlight
    \/ ComputeOutlier
    \/ ComputeChangeSpacing
    \/ ComputeAutoMix
    \/ FsMatch
    \/ TsMatch
    \/ NfftStep
    \/ NfftReturn
    \/ NewTimes
    \/ NewSeries
    \/ NewSeriesRegular
    \/ GetTimeSlice
    \/ Return
    \/ AddData
    \/ LombScargle
    \/ FromTimes
    \/ FromArray
    \/ FromSamples
    \/ FqReturn
    \/ NewFrequencySeries
    \/ WelchSegment
    \/ WelchTail
Spec == Init /\ [][Next]_vars

(***************************************************************************)
(*                               Claims                                    *)
(***************************************************************************)

\* C1: compute with recipe 'slight' returns a sequence of length n whose
\* minimum equals the requested offset, whatever the jittered minimum was.
C1_SlightMinIsOffset ==
    (it_pc = "done" /\ it_struct = "slight")
        => (Len(it_t) = it_n /\ SeqMin(it_t) = it_kw.offset)

\* C3: FrequencySeries.match against a Time Series raises invalid-argument
\* when the relative duration difference exceeds tol, and otherwise (a real
\* series of the same length, a psd of the same length or none) converts the
\* Time Series and delegates to the external match function.
C3_MatchWithinTolDelegates ==
    (m_call = "FrequencySeries.match" /\ m_args.other.kind = "TimeSeries")
        => IF ExceedsTol(m_args.other.duration, m_args.sd, m_args.tol)
           THEN m_pc = "ValueError:tolerance"
           ELSE (/\ ~m_args.other.complex
                 /\ m_args.other.len = m_args.slen
                 /\ m_args.plen \in {None, m_args.slen})
                    => m_pc = "delegated"

\* C9: the refinement loop of ts_nfft has made at most 500 solver steps when
\* it exits, by convergence or by the cap.
C9_AtMostCapSteps ==
    nf_pc \in {"converged", "capped"} => nf_steps <= MaxCount

\* C7: a Time Series that __init__ or get_time_slice has just built has as
\* many samples as its Time Grid has timestamps (a grid of another length is
\* rejected).
C7_SeriesLengthsAgree ==
    (ts_op.name \in {"TimeSeries", "get_time_slice"} /\ ts_op.status = "ok")
        => Consistent(Len(ts_series))

\* C8: add_data is atomic: if every series had len(samples) = len(time grid)
\* before the call, every series (the ones sharing the grid object too) has
\* it after the call, whether or not extending the grid failed.
C8_AddDataAtomic ==
    [][(ts_op'.name = "add_data" /\ AllConsistent) => AllConsistent']_vars

\* C4: lomb_scargle never hands the kernel the frequency 0, whether the grid
\* has no zero, a zero at the first index or a zero in the interior.
C4_KernelNeverAtZero == ls_pc \in {"done", "ValueError"} => 0 \notin ls_evals

\* the grid has its zero at an interior index, and both sides went to the kernel
C4_Witness ==
    /\ ls_pc = "done" /\ has_zero(ls_grid) /\ zero_idx(ls_grid) > 0
    /\ Cardinality(ls_evals) >= 2

\* the powers the kernel computed for the bins i (1-based) of the grid, as
\* lomb_scargle asks for them: at |f| beside an interior zero, at f beside a
\* zero at the first index
KernelAt(i) ==
    IF zero_idx(ls_grid) = 0 THEN ls_kernel[ls_grid[i]] ELSE ls_kernel[Abs(ls_grid[i])]
MinPower(bins) == CHOOSE m \in {KernelAt(i) : i \in bins} : \A i \in bins : m <= KernelAt(i)

\* C5 as stated: with a zero at index z > 0 the zero bin holds the minimum of
\* the kernel's powers on the shorter side (either side when both are as
\* long); with z = 0 the minimum of all other powers.
C5_ZeroBinShorterSide ==
    (ls_pc = "done" /\ has_zero(ls_grid)) =>
        LET z == zero_idx(ls_grid)
            below == 1..z
            above == (z + 2)..Len(ls_grid)
        IN  IF z = 0 THEN ls_psd[1] = MinPower(above)
            ELSE IF above = {} THEN TRUE
            ELSE IF Cardinality(below) < Cardinality(above) THEN ls_psd[z + 1] = MinPower(below)
            ELSE IF Cardinality(above) < Cardinality(below) THEN ls_psd[z + 1] = MinPower(above)
            ELSE ls_psd[z + 1] \in {MinPower(below), MinPower(above)}

\* C5 amended: with a zero at index z > 0 the zero bin holds the minimum of
\* the kernel's powers of the bins below z (the negative-frequency side),
\* whichever side is shorter; with z = 0 the minimum of all other powers.
C5_ZeroBinNegativeSide ==
    (ls_pc = "done" /\ has_zero(ls_grid)) =>
        LET z == zero_idx(ls_grid)
        IN  IF z = 0 THEN ls_psd[1] = MinPower(2..Len(ls_grid))
            ELSE ls_psd[z + 1] = MinPower(1..z)

\* the positive side is the shorter one and holds larger powers than the
\* minimum of the negative side
C5_Witness ==
    /\ ls_pc = "done" /\ has_zero(ls_grid)
    /\ LET z == zero_idx(ls_grid)
       IN  /\ z > 0
           /\ Len(ls_grid) - z - 1 >= 1
           /\ Len(ls_grid) - z - 1 < z
           /\ MinPower(1..z) < MinPower((z + 2)..Len(ls_grid))

\* the constructor call on a source time grid computed the sample count itself
\* (maximum_frequency given, or estimated from the Nyquist frequency) and
\* returned a grid
SizedGrid == fq_op = "from_times" /\ fq_pc = "ok" /\ fq_args.locals.computed

\* x = (maximum_frequency - minimum_frequency) / df, df the spacing kept in
\* the grid, and "r is x rounded": r is an integer nearest to x
SizingRatio ==
    FDiv(FSub(fq_args.locals.maximum_frequency, fq_args.locals.minimum_frequency),
         fq_obj.df)
IsRounded(r, x) == 2 * Abs(x[1] - r * x[2]) <= x[2]

\* entry i (0-based) of the grid is minimum_frequency + df * i
EntriesOnGrid ==
    \A i \in DOMAIN fq_obj.data :
        fq_obj.data[i] = FAdd(fq_args.locals.minimum_frequency,
                              FMul(fq_obj.df, Whole(i - 1)))

\* C6 as stated: for any minimum_frequency, maximum_frequency and df the grid
\* has 1 + round((maximum_frequency - minimum_frequency)/df) entries, the
\* first is minimum_frequency and entry i is minimum_frequency + df*i.
C6_GridSizing ==
    (SizedGrid /\ IsFinite(fq_obj.df)) =>
        /\ IsRounded(Len(fq_obj.data) - 1, SizingRatio)
        /\ Len(fq_obj.data) >= 1
        /\ fq_obj.data[1] = fq_args.locals.minimum_frequency
        /\ EntriesOnGrid

\* C6 amended: the same, for maximum_frequency >= minimum_frequency (df being
\* the spacing 1/(duration * samples_per_peak) of a source grid of positive
\* duration).
C6_GridSizingOrdered ==
    (/\ SizedGrid /\ IsFinite(fq_obj.df)
     /\ FSub(fq_args.locals.maximum_frequency, fq_args.locals.minimum_frequency)[1] >= 0) =>
        /\ IsRounded(Len(fq_obj.data) - 1, SizingRatio)
        /\ Len(fq_obj.data) >= 1
        /\ fq_obj.data[1] = fq_args.locals.minimum_frequency
        /\ EntriesOnGrid

\* a sized grid of several entries whose ratio was a proper fraction, from a
\* call that set both frequencies and passed a df of its own
C6_Witness ==
    /\ SizedGrid /\ IsFinite(fq_obj.df)
    /\ fq_args.args.maximum_frequency # None
    /\ fq_args.args.minimum_frequency # None
    /\ fq_args.args.df # None
    /\ SizingRatio[2] = 2
    /\ Len(fq_obj.data) >= 3

Ceil(a, b) == (a + b - 1) \div b

\* C2: with over = 1 the counter the sum is divided by is
\* ceil((L - d) / d) + 1.
C2_SegmentCount ==
    (lw_pc = "done" /\ lw_over[1] = lw_over[2]) =>
        lw_counter = Ceil(Len(lw_times) - lw_d, lw_d) + 1

\* a finished call with over = 1 whose last full step overshoots L - d
C2_Witness ==
    /\ lw_pc = "done" /\ lw_over[1] = lw_over[2]
    /\ (Len(lw_times) - lw_d) % lw_d # 0
    /\ lw_counter >= 3

\* C10: every pass of the segment loop advances the start index n by a
\* positive step (so the loop exits and lomb_welch runs to completion).
C10_LoopAdvances ==
    [][(lw_pc = "loop" /\ lw_pc' = "loop" /\ lw_counter' = lw_counter + 1)
          => lw_n' > lw_n]_vars

\* the segments of a finished lomb_welch call, the tail segment last
TailSegment == lw_segs[Len(lw_segs)]
DistinctTimes == \A i \in 1..(Len(lw_times) - 1) : lw_times[i] < lw_times[i + 1]

\* C11: on a series of distinct ascending timestamps the tail segment is
\* the last data_per_segment samples, indices L-d .. L-1 (as the slice
\* [L-d, L)), so the last sample of the series is in it.
C11_TailIsLastSamples ==
    (lw_pc = "done" /\ DistinctTimes) =>
        /\ TailSegment.lo = Len(lw_times) - lw_d
        /\ TailSegment.hi = Len(lw_times)

\* the number a segment's kernel periodogram ends up divided by
Divisor(seg) == FMul(Frac(seg.W_scargle[1], seg.W_scargle[2]),
                     Frac(seg.W_welch[1], seg.W_welch[2]))
TaperPowerOf(seg) ==
    LET W == taper_power(tukey(seg.hi - seg.lo)) IN Frac(W[1], W[2])

\* C12: every segment added to the sum is tapered once and divided by its
\* taper power exactly once (the result being that sum over the counter).
C12_TaperedAndNormalizedOnce ==
    lw_pc = "done" =>
        /\ Len(lw_segs) = lw_counter
        /\ \A k \in 1..Len(lw_segs) :
              /\ lw_segs[k].tapers = 1
              /\ Divisor(lw_segs[k]) = TaperPowerOf(lw_segs[k])

\* C13: compute called with no optional parameter, whatever the recipe,
\* returns a sequence of length n and does not raise.
C13_DefaultsSuffice ==
    (it_pc \notin {"idle", "new"} /\ it_args = NoKw) =>
        (it_pc = "done" /\ Len(it_t) = it_n)

\* a step that builds a FrequencySamples from the one built last, directly or
\* through _return
CopyStep == fq_op' \in {"from_samples", "_return"} /\ fq_depth' = fq_depth + 1

\* C14: a FrequencySamples built from another one (directly or through
\* _return) has the df, the samples_per_peak and the basic_df of the
\* original, for every samples_per_peak >= 1.
C14_CopyKeepsMetadata ==
    [][CopyStep =>
          /\ fq_obj'.df = fq_obj.df
          /\ fq_obj'.spp = fq_obj.spp
          /\ basic_df(fq_obj') = basic_df(fq_obj)]_vars

\* a FrequencySeries call with N >= 1 samples and delta_f > 0
SeriesCall ==
    /\ fq_op = "FrequencySeries"
    /\ fq_args.args.n_samples >= 1
    /\ fq_args.args.df > 0

\* C15: a FrequencySeries of N >= 1 samples built without a frequency_grid
\* but with delta_f > 0, minimum_frequency m and samples_per_peak s gets a
\* Frequency Grid of length N that starts at m and has basic_df = delta_f
\* (so duration = 1 / delta_f); the construction succeeds, N = 1 included.
C15_SeriesGridFromDeltaF ==
    SeriesCall =>
        /\ fq_pc = "ok"
        /\ Len(fq_obj.data) = fq_args.args.n_samples
        /\ fq_obj.data[1] = Frac(SetDefault(fq_args.args.minimum_frequency,
                                            DefaultMinimumFrequency), 4)
        /\ basic_df(fq_obj) = Frac(fq_args.args.df, 4)

====
